---- MODULE Spec2Model ----
(***************************************************************************)
(* Session store of codex-rs/core/src/session_manager.rs: the directory    *)
(* walk of list_sessions, the journal parser parse_session_file and the    *)
(* resolver find_session, over a small model of the file system.           *)
(***************************************************************************)
EXTENDS Integers, Sequences, FiniteSets, TLC

VARIABLES
    dirs,     \* the directories that exist, as paths below the sessions root (<<>> is the root)
    noread,   \* the directories whose entries cannot be enumerated
    files,    \* the files of the store, in the order the directories list them
    result,   \* the outcome of the call just made, if the last step was a call
    walk,     \* a list_sessions call in progress: its position and its local variables
    touched,  \* the paths another process created, changed or removed during that call
    debug_assertions,  \* the build: cfg(debug_assertions)
    command_files,     \* the entries of the two commands directories, in listing order
    manager,  \* the CustomCommandManager
    viewer,   \* the ConversationHistoryViewer, with the events sent on its channel
    events    \* the events the viewer handled last

\* the session store and the call on it, a walk in steps, and the terminal interface
storeVars == <<dirs, noread, files, result>>
walkVars == <<walk, touched>>
tuiVars == <<debug_assertions, command_files, manager, viewer, events>>

vars == <<dirs, noread, files, result, walk, touched,
          debug_assertions, command_files, manager, viewer, events>>

-----------------------------------------------------------------------------
(* Bounds of the model *)

MaxDepth == 4      \* directories nest at most this deep below the root
MaxFiles == 2      \* files in the store, under the walk
MaxSessions == 3   \* files in the day directory, under the index
MaxTime == 2       \* modification times are 1..MaxTime
MaxBody == 2       \* body lines of a journal
IdLen == 2         \* characters of an id (a UUID, shortened)
MaxNoRead == 1     \* directories that cannot be enumerated at one time
MaxRaceFiles == 2  \* files in the day directory, under the walk in steps
MaxCommandFiles == 2  \* files in the commands directories
MaxEntries == 3    \* entries of the history log
MaxEvents == 2     \* events of the viewer that are remembered

-----------------------------------------------------------------------------
(* Option and Result values *)

None == <<"None">>
Some(x) == <<"Some", x>>
Ok(x) == <<"Ok", x>>
Err(kind) == <<"Err", kind>>
IsOk(r) == r[1] = "Ok"
IsErr(r) == r[1] = "Err"

-----------------------------------------------------------------------------
(* Strings are sequences of characters *)

HexLower == {"a", "1"}
HexChars == HexLower \cup {"A"}

to_lowercase_char(c) == IF c = "A" THEN "a" ELSE c

\* a string is left in the letter case it has
to_lowercase_AsWritten(s) == s

to_lowercase(s) == [i \in 1..Len(s) |-> to_lowercase_char(s[i])]

\* the empty string begins no string
starts_with_NonEmpty(s, prefix) ==
    /\ prefix # <<>>
    /\ Len(prefix) <= Len(s)
    /\ \A i \in 1..Len(prefix) : s[i] = prefix[i]

starts_with(s, prefix) ==
    /\ Len(prefix) <= Len(s)
    /\ \A i \in 1..Len(prefix) : s[i] = prefix[i]

StringsUpTo(chars, n) == UNION {[1..k -> chars] : k \in 0..n}

\* Uuid: parsing accepts either letter case, to_string() prints lower case
ParseUuid(s) ==
    IF Len(s) = IdLen /\ \A i \in 1..Len(s) : s[i] \in HexChars
    THEN Ok(to_lowercase(s))
    ELSE Err("InvalidUuid")

-----------------------------------------------------------------------------
(* JSON values and the lines of a journal *)

JNum == <<"num">>
JNull == <<"null">>
JStr(s) == <<"str", s>>
JObj(f) == <<"obj", f>>
Absent == <<"absent">>

\* the object holding the keys of f that are not Absent
Object(f) == JObj([k \in {k \in DOMAIN f : f[k] # Absent} |-> f[k]])

BlankLine == <<"blank">>
BadLine == <<"bad">>
JsonLine(v) == <<"json", v>>

\* serde_json::from_str::<Value>
from_str(line) == IF line[1] = "json" THEN Ok(line[2]) ELSE Err("Syntax")

\* line.trim().is_empty()
trim_is_empty(line) == line[1] = "blank"

\* serde_json::Value::get with a string key: None on anything but an object
Get(v, key) ==
    IF v[1] = "obj" /\ key \in DOMAIN v[2] THEN Some(v[2][key]) ELSE None

as_str(v) == IF v[1] = "str" THEN Some(v[2]) ELSE None

-----------------------------------------------------------------------------
(* The file system *)

Root == <<>>
SessionsDepth == 3      \* YYYY/MM/DD: the directories the walk descends through

\* a path is the directory it lies in and its file name
Path(d, n) == [dir |-> d, name |-> n]
FileName(pre, tag, ext) == [pre |-> pre, tag |-> tag, ext |-> ext]

\* Path::extension
extension(p) == IF p.name.ext = "" THEN None ELSE Some(p.name.ext)

\* Path::file_name, then starts_with("rollout-")
name_starts_with_rollout(p) == p.name.pre = "rollout-"

File(d, n, read, mtime, btime) ==
    [dir |-> d, name |-> n, read |-> read, mtime |-> mtime, btime |-> btime]

PathOf(f) == Path(f.dir, f.name)

FileAt(p) == {i \in 1..Len(files) : PathOf(files[i]) = p}

\* Path::exists, for the path of a file
exists(p) == FileAt(p) # {}

\* fs::read_to_string: the lines of the file
read_to_string(p) ==
    IF exists(p) THEN files[CHOOSE i \in FileAt(p) : TRUE].read ELSE Err("NotFound")

\* fs::metadata, then modified() and created()
metadata(p) ==
    IF exists(p)
    THEN LET f == files[CHOOSE i \in FileAt(p) : TRUE]
         IN  Ok([modified |-> f.mtime,
                 created |-> IF f.btime = None THEN Err("Unsupported") ELSE Ok(f.btime[2])])
    ELSE Err("NotFound")

-----------------------------------------------------------------------------
(* parse_session_file *)

\* serde_json::from_value::<SessionMeta>: id and timestamp are required, instructions
\* is read when it is a string
DecodeSessionMeta(v) ==
    LET id == Get(v, "id")
        ts == Get(v, "timestamp")
        ins == Get(v, "instructions")
    IN  IF v[1] # "obj" THEN Err("InvalidType")
        ELSE IF id = None \/ as_str(id[2]) = None THEN Err("MissingId")
        ELSE IF IsErr(ParseUuid(as_str(id[2])[2])) THEN Err("InvalidUuid")
        ELSE IF ts = None \/ as_str(ts[2]) = None THEN Err("MissingTimestamp")
        ELSE Ok([id |-> ParseUuid(as_str(id[2])[2])[2],
                 timestamp |-> as_str(ts[2])[2],
                 instructions |-> IF ins = None THEN None ELSE as_str(ins[2])])

\* a branch of whatever shape is taken
GitBranch_AnyShape(v) ==
    LET git == Get(v, "git")
    IN  IF git = None THEN None ELSE Get(git[2], "branch")

\* metadata_value.get("git").and_then(get("branch")).and_then(as_str)
GitBranch(v) ==
    LET git == Get(v, "git")
        branch == IF git = None THEN None ELSE Get(git[2], "branch")
    IN  IF branch = None THEN None ELSE as_str(branch[2])

\* a parsed body line counts unless it holds the key record_type
IsMessage(item) == Get(item, "record_type") = None

\* every line that is not blank counts
MessageCount_NotBlank(lines) ==
    Cardinality({i \in 2..Len(lines) : ~trim_is_empty(lines[i])})

\* lines[1..] filtered: not blank, parses, is a message
MessageCount(lines) ==
    Cardinality({i \in 2..Len(lines) :
        /\ ~trim_is_empty(lines[i])
        /\ IsOk(from_str(lines[i]))
        /\ IsMessage(from_str(lines[i])[2])})

\* the first line that parses is taken for the header
HeaderLine_FirstParsed(lines) ==
    LET parsed == {i \in 1..Len(lines) : IsOk(from_str(lines[i]))}
    IN  IF parsed = {} THEN lines[1]
        ELSE lines[CHOOSE i \in parsed : \A j \in parsed : i <= j]

\* the header of a journal: lines[0]
HeaderLine(lines) == lines[1]

\* created().unwrap_or(last_modified)
CreatedTime(md) == IF IsOk(md.created) THEN md.created[2] ELSE md.modified

parse_session_file(p) ==
    LET content == read_to_string(p) IN
    IF IsErr(content) THEN Err("Io")
    ELSE LET lines == content[2] IN
    IF lines = <<>> THEN Err("InvalidData")
    ELSE LET metadata_value == from_str(HeaderLine(lines)) IN
    IF IsErr(metadata_value) THEN Err("InvalidData")
    ELSE LET session_meta == DecodeSessionMeta(metadata_value[2]) IN
    IF IsErr(session_meta) THEN Err("InvalidData")
    ELSE LET md == metadata(p) IN
    IF IsErr(md) THEN Err("Io")
    ELSE Ok([id |-> session_meta[2].id,
             path |-> p,
             timestamp |-> session_meta[2].timestamp,
             instructions |-> session_meta[2].instructions,
             message_count |-> MessageCount(lines),
             last_modified |-> md[2].modified,
             created_time |-> CreatedTime(md[2]),
             git_branch |-> GitBranch(metadata_value[2])])

-----------------------------------------------------------------------------
(* list_sessions *)

IsPrefix(d, p) == Len(d) <= Len(p) /\ SubSeq(p, 1, Len(d)) = d

\* the subdirectories of d
SubDirs(d) == {p \in dirs : Len(p) = Len(d) + 1 /\ IsPrefix(d, p)}

\* a directory is listed before another when the first file beneath it comes first in files
DirRank(p) ==
    LET under == {i \in 1..Len(files) : IsPrefix(p, files[i].dir)}
    IN  IF under = {} THEN Len(files) + 1
        ELSE CHOOSE i \in under : \A j \in under : i <= j

RECURSIVE DirOrder(_)
DirOrder(S) ==
    IF S = {} THEN <<>>
    ELSE LET p == CHOOSE x \in S : \A y \in S : DirRank(x) <= DirRank(y)
         IN  <<p>> \o DirOrder(S \ {p})

DirEntry(p) == [path |-> Path(SubSeq(p, 1, Len(p) - 1), FileName("", p[Len(p)], "")),
                is_dir |-> TRUE, target |-> p]
FileEntry(f) == [path |-> PathOf(f), is_dir |-> FALSE, target |-> <<>>]

FilesIn(d) == SelectSeq(files, LAMBDA f : f.dir = d)

\* fs::read_dir: the entries of d, or an error when d cannot be enumerated
read_dir(d) ==
    IF d \notin dirs \/ d \in noread THEN Err("Io")
    ELSE LET subdirs == DirOrder(SubDirs(d))
             inside == FilesIn(d)
         IN  Ok([i \in 1..Len(subdirs) |-> DirEntry(subdirs[i])]
                \o [i \in 1..Len(inside) |-> FileEntry(inside[i])])

\* the filter on a file entry of a day directory
IsRolloutPath(path) ==
    /\ extension(path) = Some("jsonl")
    /\ name_starts_with_rollout(path)

\* the innermost loop: the entries of a day directory, parsed, failures skipped
RECURSIVE FileLoop(_)

\* a failed parse ends the loop instead of skipping the file
FileLoop_StopAtFailure(entries) ==
    IF entries = <<>> THEN <<>>
    ELSE LET path == Head(entries).path
             session_info == parse_session_file(path)
         IN  IF ~IsRolloutPath(path) THEN FileLoop(Tail(entries))
             ELSE IF IsErr(session_info) THEN <<>>
             ELSE <<session_info[2]>> \o FileLoop(Tail(entries))

FileLoop(entries) ==
    IF entries = <<>> THEN <<>>
    ELSE LET path == Head(entries).path
             session_info == parse_session_file(path)
             rest == FileLoop(Tail(entries))
         IN  IF IsRolloutPath(path) /\ IsOk(session_info)
             THEN <<session_info[2]>> \o rest
             ELSE rest

\* the loops over year, month and day entries: level 0 reads the sessions root,
\* level SessionsDepth reads the files of a day directory
RECURSIVE WalkDir(_, _)
RECURSIVE DirLoop(_, _)

\* a walk that takes the files of every directory it passes through
WalkDir_EveryLevel(d, level) ==
    LET entries == read_dir(d) IN
    IF IsErr(entries) THEN entries
    ELSE LET below == DirLoop(entries[2], level) IN
         IF IsErr(below) THEN below
         ELSE Ok(FileLoop(entries[2]) \o below[2])

\* a walk that passes over a subdirectory it cannot read
DirLoop_SkipUnreadable(entries, level) ==
    IF entries = <<>> THEN Ok(<<>>)
    ELSE IF ~Head(entries).is_dir THEN DirLoop(Tail(entries), level)
    ELSE LET first == WalkDir(Head(entries).target, level + 1)
             rest == DirLoop(Tail(entries), level)
         IN  IF IsErr(rest) THEN rest
             ELSE IF IsErr(first) THEN rest
             ELSE Ok(first[2] \o rest[2])

WalkDir(d, level) ==
    LET entries == read_dir(d) IN
    IF IsErr(entries) THEN entries
    ELSE IF level = SessionsDepth THEN Ok(FileLoop(entries[2]))
    ELSE DirLoop(entries[2], level)

DirLoop(entries, level) ==
    IF entries = <<>> THEN Ok(<<>>)
    ELSE IF ~Head(entries).is_dir THEN DirLoop(Tail(entries), level)
    ELSE LET first == WalkDir(Head(entries).target, level + 1) IN
         IF IsErr(first) THEN first
         ELSE LET rest == DirLoop(Tail(entries), level) IN
              IF IsErr(rest) THEN rest ELSE Ok(first[2] \o rest[2])

\* the files the walk hands to parse_session_file, in discovery order
Discovered == WalkDir(Root, 0)

\* an insertion that puts the oldest first
SortInsert_OldestFirst(sorted, x) ==
    LET k == Cardinality({i \in 1..Len(sorted) : sorted[i].last_modified <= x.last_modified})
    IN  SubSeq(sorted, 1, k) \o <<x>> \o SubSeq(sorted, k + 1, Len(sorted))

\* an insertion that puts x before the elements of its own age
SortInsert_BeforeEqual(sorted, x) ==
    LET k == Cardinality({i \in 1..Len(sorted) : sorted[i].last_modified > x.last_modified})
    IN  SubSeq(sorted, 1, k) \o <<x>> \o SubSeq(sorted, k + 1, Len(sorted))

\* insertion keeping the order of equal elements: x goes behind every element
\* that is not older than it
SortInsert(sorted, x) ==
    LET k == Cardinality({i \in 1..Len(sorted) : sorted[i].last_modified >= x.last_modified})
    IN  SubSeq(sorted, 1, k) \o <<x>> \o SubSeq(sorted, k + 1, Len(sorted))

\* sessions.sort_by(|a, b| b.last_modified.cmp(&a.last_modified))
RECURSIVE SortByLastModified(_)

\* the sessions left in discovery order
SortByLastModified_NotSorted(s) == s

SortByLastModified(s) ==
    IF s = <<>> THEN <<>>
    ELSE SortInsert(SortByLastModified(SubSeq(s, 1, Len(s) - 1)), s[Len(s)])

\* a listing that reads the root without testing for it
list_sessions_RootRequired ==
    LET sessions == Discovered IN
    IF IsErr(sessions) THEN sessions
    ELSE Ok(SortByLastModified(sessions[2]))

list_sessions ==
    IF Root \notin dirs THEN Ok(<<>>)
    ELSE LET sessions == Discovered IN
         IF IsErr(sessions) THEN sessions
         ELSE Ok(SortByLastModified(sessions[2]))

-----------------------------------------------------------------------------
(* find_session *)

\* a query is a string; read as a path it names a file or nothing
IdQuery(s) == [text |-> s, path |-> Path(<<".">>, FileName("", "id", ""))]
PathQuery(p) == [text |-> <<"/">>, path |-> p]

\* a test that takes the id in full only
IdMatches_ExactOnly(id_str, text) == id_str = text

\* the test of one session against the query
IdMatches(id_str, text) ==
    \/ starts_with(to_lowercase(id_str), to_lowercase(text))
    \/ id_str = text

\* a scan that keeps the last session that matches
FirstMatch_Last(sessions, text) ==
    LET hits == {i \in 1..Len(sessions) : IdMatches(sessions[i].id, text)}
    IN  IF hits = {} THEN None
        ELSE Some(sessions[CHOOSE i \in hits : \A j \in hits : i >= j].path)

\* a scan that falls back on the newest session when none matches
FirstMatch_OrNewest(sessions, text) ==
    LET hits == {i \in 1..Len(sessions) : IdMatches(sessions[i].id, text)}
    IN  IF sessions = <<>> THEN None
        ELSE IF hits = {} THEN Some(sessions[1].path)
        ELSE Some(sessions[CHOOSE i \in hits : \A j \in hits : i <= j].path)

\* the scan of the listing: the first session that matches
FirstMatch(sessions, text) ==
    LET hits == {i \in 1..Len(sessions) : IdMatches(sessions[i].id, text)}
    IN  IF hits = {} THEN None
        ELSE Some(sessions[CHOOSE i \in hits : \A j \in hits : i <= j].path)

\* a resolver that lists the store before it looks at the path
find_session_ListFirst(q) ==
    LET sessions == list_sessions IN
    IF IsErr(sessions) THEN sessions
    ELSE IF exists(q.path) /\ extension(q.path) = Some("jsonl")
    THEN Ok(Some(q.path))
    ELSE Ok(FirstMatch(sessions[2], q.text))

find_session(q) ==
    IF exists(q.path) /\ extension(q.path) = Some("jsonl")
    THEN Ok(Some(q.path))
    ELSE LET sessions == list_sessions IN
         IF IsErr(sessions) THEN sessions
         ELSE Ok(FirstMatch(sessions[2], q.text))

-----------------------------------------------------------------------------
(* The contents the model draws from *)

\* a header line with the given id text and nothing optional
Header(idtext) ==
    JsonLine(Object([id |-> JStr(idtext), timestamp |-> JStr(<<"t">>),
                     instructions |-> Absent, git |-> Absent]))

Message == JsonLine(Object([role |-> JStr(<<"u">>), record_type |-> Absent]))

Journal(idtext) == Ok(<<Header(idtext), Message>>)

NoCall == [op |-> "none", query |-> IdQuery(<<>>), out |-> None]

-----------------------------------------------------------------------------
(* The components at rest: no walk in progress, no command loaded, a viewer *)
(* of no history                                                             *)

NoWalk == [pc |-> "idle", entries |-> <<>>, sessions |-> <<>>]

\* CustomCommandManager::new: no command; the map is a function on the names it holds
CustomCommandManager_new == [commands |-> <<>>]

\* ConversationHistoryViewer::new; app_event_tx holds the events sent on the channel
new(history_log_id, history_entry_count) ==
    [app_event_tx |-> <<>>,
     history_entries |-> <<>>,
     scroll_offset |-> 0,
     visible_height |-> 0,
     is_complete |-> FALSE,
     history_log_id |-> history_log_id,
     history_entry_count |-> history_entry_count,
     loading_entries |-> <<>>]

WalkAtRest == walk = NoWalk /\ touched = {}

TuiAtRest ==
    /\ debug_assertions = FALSE
    /\ command_files = [User |-> None, Project |-> None]
    /\ manager = CustomCommandManager_new
    /\ viewer = new(None, 0)
    /\ events = <<>>

-----------------------------------------------------------------------------
(* The steps of another process on the store *)

CreateRoot ==
    /\ result = NoCall
    /\ Root \notin dirs
    /\ dirs' = {Root}
    /\ UNCHANGED <<noread, files, result>>

MkDir(d, c) ==
    /\ result = NoCall
    /\ d \in dirs
    /\ Len(d) < MaxDepth
    /\ Append(d, c) \notin dirs
    /\ dirs' = dirs \cup {Append(d, c)}
    /\ UNCHANGED <<noread, files, result>>

\* a directory loses or regains the permission to be listed
Chmod(d) ==
    /\ result = NoCall
    /\ d \in dirs
    /\ noread' = IF d \in noread THEN noread \ {d} ELSE noread \cup {d}
    /\ Cardinality(noread') <= MaxNoRead
    /\ UNCHANGED <<dirs, files, result>>

CreateFile(d, n, read, mtime, btime) ==
    /\ result = NoCall
    /\ d \in dirs
    /\ ~exists(Path(d, n))
    /\ files' = Append(files, File(d, n, read, mtime, btime))
    /\ UNCHANGED <<dirs, noread, result>>

\* the file is rewritten, or its permissions or its times change
RewriteFile(i, read, mtime) ==
    /\ result = NoCall
    /\ i \in 1..Len(files)
    /\ <<read, mtime>> # <<files[i].read, files[i].mtime>>
    /\ files' = [files EXCEPT ![i].read = read, ![i].mtime = mtime]
    /\ UNCHANGED <<dirs, noread, result>>

RemoveFile(i) ==
    /\ result = NoCall
    /\ i \in 1..Len(files)
    /\ files' = SubSeq(files, 1, i - 1) \o SubSeq(files, i + 1, Len(files))
    /\ UNCHANGED <<dirs, noread, result>>

-----------------------------------------------------------------------------
(* The calls *)

ListSessions ==
    /\ result = NoCall
    /\ result' = [op |-> "list", query |-> IdQuery(<<>>), out |-> list_sessions]
    /\ UNCHANGED <<dirs, noread, files>>

FindSession(q) ==
    /\ result = NoCall
    /\ result' = [op |-> "find", query |-> q, out |-> find_session(q)]
    /\ UNCHANGED <<dirs, noread, files>>

\* the caller takes the outcome of the call
Return ==
    /\ result # NoCall
    /\ result' = NoCall
    /\ UNCHANGED <<dirs, noread, files>>

-----------------------------------------------------------------------------
(* The store under the walk: directories of every depth, one journal content *)

\* the names a directory's subdirectories take: two years, the second without
\* months, one name at every level below
ChildNames(d) ==
    IF d = Root THEN {"2024", "2025"}
    ELSE IF d[1] = "2025" THEN {}
    ELSE {"01"}

DirPaths ==
    UNION {{p \in [1..k -> {"2024", "2025", "01"}] :
                \A i \in 1..k : p[i] \in ChildNames(SubSeq(p, 1, i - 1))} : k \in 0..MaxDepth}

RolloutName(i) == FileName("rollout-", ToString(i), "jsonl")

AnId == [i \in 1..IdLen |-> IF i = 1 THEN "a" ELSE "1"]

\* a journal; an empty, a malformed and an unreadable file; and two journals
\* under names the walk does not take
StoreFiles ==
    {<<RolloutName(1), Journal(AnId)>>,
     <<RolloutName(2), Ok(<<>>)>>,
     <<RolloutName(2), Ok(<<BadLine, Message>>)>>,
     <<RolloutName(2), Err("PermissionDenied")>>,
     <<FileName("notes-", "1", "jsonl"), Journal(AnId)>>,
     <<FileName("rollout-", "1", "txt"), Journal(AnId)>>}

MissingPath == Path(Root, FileName("rollout-", "0", "jsonl"))

StoreQueries ==
    {IdQuery(<<"a">>), PathQuery(MissingPath)}
        \cup {PathQuery(PathOf(files[i])) : i \in 1..Len(files)}

Init ==
    /\ dirs = {}
    /\ noread = {}
    /\ files = <<>>
    /\ result = NoCall
    /\ WalkAtRest
    /\ TuiAtRest

Next ==
    \/ CreateRoot /\ UNCHANGED <<walkVars, tuiVars>>
    \/ \E d \in DirPaths : \E c \in ChildNames(d) : MkDir(d, c) /\ UNCHANGED <<walkVars, tuiVars>>
    \/ \E d \in DirPaths : Chmod(d) /\ UNCHANGED <<walkVars, tuiVars>>
    \/ \E d \in DirPaths, k \in StoreFiles :
            Len(files) < MaxFiles /\ CreateFile(d, k[1], k[2], 1, None) /\ UNCHANGED <<walkVars, tuiVars>>
    \/ \E i \in 1..MaxFiles, k \in StoreFiles :
            i <= Len(files) /\ k[1] = files[i].name /\ RewriteFile(i, k[2], 1) /\ UNCHANGED <<walkVars, tuiVars>>
    \/ \E i \in 1..MaxFiles : RemoveFile(i) /\ UNCHANGED <<walkVars, tuiVars>>
    \/ ListSessions /\ UNCHANGED <<walkVars, tuiVars>>
    \/ \E q \in StoreQueries : FindSession(q) /\ UNCHANGED <<walkVars, tuiVars>>
    \/ Return /\ UNCHANGED <<walkVars, tuiVars>>

Spec == Init /\ [][Next]_vars

-----------------------------------------------------------------------------
(* The store under the index: one day directory, journals of every id and age *)

DayDir == <<"2024", "01", "01">>

IndexIds == [1..IdLen -> HexLower]

IndexReads == {Journal(id) : id \in IndexIds} \cup {Ok(<<>>)}

IndexQueries ==
    {IdQuery(t) : t \in StringsUpTo(HexChars, IdLen)} \cup {PathQuery(MissingPath)}

InitIndex ==
    /\ dirs = {SubSeq(DayDir, 1, k) : k \in 0..Len(DayDir)}
    /\ noread = {}
    /\ files = <<>>
    /\ result = NoCall
    /\ WalkAtRest
    /\ TuiAtRest

NextIndex ==
    \/ \E i \in 1..MaxSessions, read \in IndexReads, mtime \in 1..MaxTime :
            Len(files) < MaxSessions /\ CreateFile(DayDir, RolloutName(i), read, mtime, None) /\ UNCHANGED <<walkVars, tuiVars>>
    \/ \E i \in 1..MaxSessions, read \in IndexReads, mtime \in 1..MaxTime :
            RewriteFile(i, read, mtime) /\ UNCHANGED <<walkVars, tuiVars>>
    \/ \E i \in 1..MaxSessions : RemoveFile(i) /\ UNCHANGED <<walkVars, tuiVars>>
    \/ ListSessions /\ UNCHANGED <<walkVars, tuiVars>>
    \/ \E q \in IndexQueries : FindSession(q) /\ UNCHANGED <<walkVars, tuiVars>>
    \/ Return /\ UNCHANGED <<walkVars, tuiVars>>

SpecIndex == InitIndex /\ [][NextIndex]_vars

-----------------------------------------------------------------------------
(* One journal under the parser: headers and body lines of every shape *)

UpperId == [i \in 1..IdLen |-> IF AnId[i] = "a" THEN "A" ELSE AnId[i]]
ShortId == SubSeq(AnId, 1, IdLen - 1)

IdFields == {Absent, JStr(AnId), JStr(UpperId), JStr(ShortId), JNum}
TimestampFields == {Absent, JStr(<<"t">>), JNum}
InstructionsFields == {Absent, JStr(<<"i">>), JNum}
GitFields == {Absent, JNum, Object([branch |-> Absent]),
              Object([branch |-> JStr(<<"m">>)]), Object([branch |-> JNum])}

\* every shape of the optional fields beside a valid id and timestamp, and every
\* shape of id and timestamp without optional fields
HeaderObjects ==
    {Object([id |-> a, timestamp |-> JStr(<<"t">>), instructions |-> c, git |-> d]) :
        a \in {JStr(AnId), JStr(UpperId)}, c \in InstructionsFields, d \in GitFields}
    \cup
    {Object([id |-> a, timestamp |-> b, instructions |-> Absent, git |-> Absent]) :
        a \in IdFields, b \in TimestampFields}

FirstLines == {JsonLine(h) : h \in HeaderObjects} \cup {BlankLine, BadLine, JsonLine(JNum)}

StateRecord == JsonLine(Object([record_type |-> JStr(<<"s">>)]))
NullRecord == JsonLine(Object([record_type |-> JNull, role |-> JStr(<<"u">>)]))

BodyLines == {BlankLine, BadLine, JsonLine(JNum), JsonLine(JStr(<<"u">>)),
              Message, StateRecord, NullRecord, Header(AnId)}

JournalPath == Path(DayDir, RolloutName(1))

\* the first line is written to the empty journal
WriteHeader(line) ==
    /\ result = NoCall
    /\ files[1].read = Ok(<<>>)
    /\ files' = [files EXCEPT ![1].read = Ok(<<line>>)]
    /\ UNCHANGED <<dirs, noread, result>>

\* a line is appended to the journal
AppendLine(line) ==
    /\ result = NoCall
    /\ IsOk(files[1].read)
    /\ Len(files[1].read[2]) \in 1..MaxBody
    /\ files' = [files EXCEPT ![1].read = Ok(Append(files[1].read[2], line))]
    /\ UNCHANGED <<dirs, noread, result>>

ParseSessionFile(p) ==
    /\ result = NoCall
    /\ result' = [op |-> "parse", query |-> PathQuery(p), out |-> parse_session_file(p)]
    /\ UNCHANGED <<dirs, noread, files>>

InitParse ==
    /\ dirs = {SubSeq(DayDir, 1, k) : k \in 0..Len(DayDir)}
    /\ noread = {}
    /\ \E read \in {Ok(<<>>), Err("PermissionDenied")}, mtime \in 1..MaxTime,
          btime \in {None, Some(1)} :
            files = <<File(DayDir, RolloutName(1), read, mtime, btime)>>
    /\ result = NoCall
    /\ WalkAtRest
    /\ TuiAtRest

NextParse ==
    \/ \E line \in FirstLines : WriteHeader(line) /\ UNCHANGED <<walkVars, tuiVars>>
    \/ \E line \in BodyLines : AppendLine(line) /\ UNCHANGED <<walkVars, tuiVars>>
    \/ ParseSessionFile(JournalPath) /\ UNCHANGED <<walkVars, tuiVars>>
    \/ Return /\ UNCHANGED <<walkVars, tuiVars>>

SpecParse == InitParse /\ [][NextParse]_vars

-----------------------------------------------------------------------------
(* list_sessions in steps, beside another process: the day directory is     *)
(* enumerated, and each entry is parsed in a step of its own                 *)

\* the body of the innermost loop: the entry is parsed when its name passes the
\* filter, and pushed when the parse succeeds
RECURSIVE FileStep(_, _)

\* a failed parse throws away what the call has gathered
FileStep_DropOnFailure(gathered, path) ==
    IF ~IsRolloutPath(path) THEN gathered
    ELSE IF IsErr(parse_session_file(path)) THEN <<>>
    ELSE Append(gathered, parse_session_file(path)[2])

FileStep(gathered, path) ==
    LET session_info == parse_session_file(path)
    IN  IF IsRolloutPath(path) /\ IsOk(session_info)
        THEN Append(gathered, session_info[2])
        ELSE gathered

\* the entries the walk has found and not yet parsed
Pending(p) == \E k \in 1..Len(walk.entries) : walk.entries[k].path = p

\* the other process changes the file at p while the call runs; the change is a race
\* when it hits a valid file between its discovery and its parsing
Touch(p) ==
    touched' = IF walk.pc = "idle" THEN touched
               ELSE touched \cup {[path |-> p,
                                   raced |-> Pending(p) /\ IsOk(parse_session_file(p))]}

\* the vector of a call starts from what the call before it gathered
NewSessions_LastCall == walk.sessions

\* let mut sessions = Vec::new()
NewSessions == <<>>

\* the call starts: the root is tested and the directories are enumerated down to
\* the entries of the day directory
BeginList ==
    /\ result = NoCall
    /\ walk.pc = "idle"
    /\ touched' = {}
    /\ IF Root \notin dirs
       THEN /\ result' = [op |-> "list", query |-> IdQuery(<<>>), out |-> Ok(<<>>)]
            /\ UNCHANGED walk
       ELSE IF \E k \in 0..SessionsDepth : IsErr(read_dir(SubSeq(DayDir, 1, k)))
       THEN /\ result' = [op |-> "list", query |-> IdQuery(<<>>), out |-> Err("Io")]
            /\ UNCHANGED walk
       ELSE /\ walk' = [pc |-> "files", entries |-> read_dir(DayDir)[2],
                        sessions |-> NewSessions]
            /\ UNCHANGED result
    /\ UNCHANGED <<dirs, noread, files>>

\* one turn of the loop over the entries of the day directory
ParseNext ==
    /\ walk.pc = "files"
    /\ walk.entries # <<>>
    /\ walk' = [walk EXCEPT !.entries = Tail(@),
                            !.sessions = FileStep(@, Head(walk.entries).path)]
    /\ UNCHANGED <<dirs, noread, files, result, touched>>

\* the loops are over: the sessions are sorted and returned; what the variables
\* of the call held is dead from here on
FinishList ==
    /\ walk.pc = "files"
    /\ walk.entries = <<>>
    /\ result' = [op |-> "list", query |-> IdQuery(<<>>),
                  out |-> Ok(SortByLastModified(walk.sessions))]
    /\ walk' = [walk EXCEPT !.pc = "idle"]
    /\ UNCHANGED <<dirs, noread, files, touched>>

RaceReads == {Journal(AnId), Ok(<<>>)}

InitRace ==
    /\ dirs = {SubSeq(DayDir, 1, k) : k \in 0..Len(DayDir)}
    /\ noread = {}
    /\ files = <<>>
    /\ result = NoCall
    /\ WalkAtRest
    /\ TuiAtRest

NextRace ==
    \/ \E i \in 1..MaxRaceFiles, read \in RaceReads, mtime \in 1..MaxTime :
            /\ Len(files) < MaxRaceFiles
            /\ CreateFile(DayDir, RolloutName(i), read, mtime, None)
            /\ Touch(Path(DayDir, RolloutName(i)))
            /\ UNCHANGED <<walk, tuiVars>>
    \/ \E i \in 1..MaxRaceFiles, read \in RaceReads, mtime \in 1..MaxTime :
            /\ RewriteFile(i, read, mtime)
            /\ Touch(PathOf(files[i]))
            /\ UNCHANGED <<walk, tuiVars>>
    \/ \E i \in 1..MaxRaceFiles :
            /\ RemoveFile(i)
            /\ Touch(PathOf(files[i]))
            /\ UNCHANGED <<walk, tuiVars>>
    \/ BeginList /\ UNCHANGED tuiVars
    \/ ParseNext /\ UNCHANGED tuiVars
    \/ FinishList /\ UNCHANGED tuiVars
    \/ Return /\ UNCHANGED <<walkVars, tuiVars>>

SpecRace == InitRace /\ [][NextRace]_vars

-----------------------------------------------------------------------------
(* Calls one after another: the store changes between the calls, never      *)
(* during one                                                                *)

Idle == walk.pc = "idle"

NextCalls ==
    \/ \E i \in 1..MaxRaceFiles, read \in RaceReads, mtime \in 1..MaxTime :
            /\ Idle /\ Len(files) < MaxRaceFiles
            /\ CreateFile(DayDir, RolloutName(i), read, mtime, None)
            /\ UNCHANGED <<walkVars, tuiVars>>
    \/ \E i \in 1..MaxRaceFiles, read \in RaceReads, mtime \in 1..MaxTime :
            Idle /\ RewriteFile(i, read, mtime) /\ UNCHANGED <<walkVars, tuiVars>>
    \/ \E i \in 1..MaxRaceFiles : Idle /\ RemoveFile(i) /\ UNCHANGED <<walkVars, tuiVars>>
    \/ BeginList /\ UNCHANGED tuiVars
    \/ ParseNext /\ UNCHANGED tuiVars
    \/ FinishList /\ UNCHANGED tuiVars
    \/ \E q \in StoreQueries : Idle /\ FindSession(q) /\ UNCHANGED <<walkVars, tuiVars>>
    \/ Return /\ UNCHANGED <<walkVars, tuiVars>>

SpecCalls == InitRace /\ [][NextCalls]_vars

-----------------------------------------------------------------------------
(* Slash commands: the built-in commands, and CustomCommandManager loading  *)
(* custom commands from the markdown files of two directories               *)

\* BuiltInSlashCommand::iter(): the variants in the order of the enum; TestApproval
\* is compiled in under cfg(debug_assertions)
BuiltInSlashCommand ==
    <<"New", "Init", "Compact", "Diff", "Mention", "Status", "Logout", "Quit">>
        \o (IF debug_assertions THEN <<"TestApproval">> ELSE <<>>)

\* BuiltInSlashCommand::command: the name of the variant in kebab-case
command(variant) ==
    CASE variant = "New" -> "new"
      [] variant = "Init" -> "init"
      [] variant = "Compact" -> "compact"
      [] variant = "Diff" -> "diff"
      [] variant = "Mention" -> "mention"
      [] variant = "Status" -> "status"
      [] variant = "Logout" -> "logout"
      [] variant = "Quit" -> "quit"
      [] variant = "TestApproval" -> "test-approval"

is_builtin_command(name) ==
    name \in {"new", "init", "compact", "diff", "mention", "status", "logout", "quit",
              "prompts"}

\* str::trim, on a text of which only the ends matter
trim(text) ==
    LET inner == {i \in 1..Len(text) : text[i] # " "}
    IN  IF inner = {} THEN <<>>
        ELSE SubSeq(text, CHOOSE i \in inner : \A j \in inner : i <= j,
                          CHOOSE i \in inner : \A j \in inner : i >= j)

\* an entry of a commands directory: a file, or a subdirectory with its entries
CommandFile(stem, ext, read) == [is_dir |-> FALSE, stem |-> stem, ext |-> ext, read |-> read]
CommandDir(name, inside) == [is_dir |-> TRUE, name |-> name, entries |-> inside]

\* load_command_from_file, after the file was read: None for a built-in name
load_command_from_file(file, source, subdirectory) ==
    IF is_builtin_command(file.stem) THEN None
    ELSE Some([name |-> file.stem,
               content |-> trim(file.read[2]),
               source |-> source,
               subdirectory |-> subdirectory])

\* HashMap::insert
Insert(map, key, value) ==
    [k \in DOMAIN map \cup {key} |-> IF k = key THEN value ELSE map[k]]

\* load_commands_from_directory: the map after the entries, and whether a read failed
RECURSIVE load_commands_from_directory(_, _, _, _)
load_commands_from_directory(commands, dir_entries, source, subdirectory) ==
    IF dir_entries = <<>> THEN [commands |-> commands, failed |-> FALSE]
    ELSE LET entry == Head(dir_entries) IN
         IF entry.is_dir
         THEN LET new_subdirectory ==
                      IF subdirectory = None THEN Some(<<entry.name>>)
                      ELSE Some(subdirectory[2] \o <<":", entry.name>>)
                  below == load_commands_from_directory(commands, entry.entries,
                                                        source, new_subdirectory)
              IN  IF below.failed THEN below
                  ELSE load_commands_from_directory(below.commands, Tail(dir_entries),
                                                    source, subdirectory)
         ELSE IF entry.ext # "md"
         THEN load_commands_from_directory(commands, Tail(dir_entries), source, subdirectory)
         ELSE IF IsErr(entry.read) THEN [commands |-> commands, failed |-> TRUE]
         ELSE LET loaded == load_command_from_file(entry, source, subdirectory)
                  next == IF loaded = None THEN commands
                          ELSE Insert(commands, loaded[2].name, loaded[2])
              IN  load_commands_from_directory(next, Tail(dir_entries), source, subdirectory)

\* load_commands: the map is cleared, the user directory is loaded, then the project's
load_commands ==
    LET user == IF command_files.User = None THEN [commands |-> <<>>, failed |-> FALSE]
                ELSE load_commands_from_directory(<<>>, command_files.User[2], "User", None)
    IN  IF user.failed \/ command_files.Project = None THEN user
        ELSE load_commands_from_directory(user.commands, command_files.Project[2],
                                          "Project", None)

\* get_commands: the values of the map
get_commands == {manager.commands[k] : k \in DOMAIN manager.commands}

\* str::cmp on the names the model knows: their place in alphabetical order
Alphabet ==
    <<"compact", "diff", "init", "logout", "mention", "new", "prompts", "quit",
      "review", "status", "test-approval">>
NameRank(name) == CHOOSE i \in 1..Len(Alphabet) : Alphabet[i] = name

\* pairs of name and command, sorted by name
RECURSIVE SortByName(_)
SortByName(pairs) ==
    IF pairs = {} THEN <<>>
    ELSE LET first == CHOOSE x \in pairs : \A y \in pairs : NameRank(x[1]) <= NameRank(y[1])
         IN  <<first>> \o SortByName(pairs \ {first})

\* all_slash_commands: the built-in commands, then the custom ones, each by name
all_slash_commands(custom_commands) ==
    SortByName({<<command(BuiltInSlashCommand[i]), <<"BuiltIn", BuiltInSlashCommand[i]>>>> :
                    i \in 1..Len(BuiltInSlashCommand)})
    \o SortByName({<<c.name, <<"Custom", c>>>> : c \in custom_commands})

\* the markdown files of a directory and of its subdirectories
RECURSIVE CountFiles(_)
CountFiles(dir_entries) ==
    IF dir_entries = <<>> THEN 0
    ELSE (IF Head(dir_entries).is_dir THEN CountFiles(Head(dir_entries).entries) ELSE 1)
         + CountFiles(Tail(dir_entries))

FilesOf(source) == IF command_files[source] = None THEN 0 ELSE CountFiles(command_files[source][2])

SameFile(entry, file) == ~entry.is_dir /\ entry.stem = file.stem /\ entry.ext = file.ext

\* the commands directory of a source is created
MakeCommandsDir(source) ==
    /\ result = NoCall
    /\ command_files[source] = None
    /\ command_files' = [command_files EXCEPT ![source] = Some(<<>>)]
    /\ UNCHANGED <<dirs, noread, files, result, walkVars, debug_assertions, manager, viewer, events>>

\* a file is written into the commands directory of a source
WriteCommandFile(source, file) ==
    /\ result = NoCall
    /\ command_files[source] # None
    /\ FilesOf("User") + FilesOf("Project") < MaxCommandFiles
    /\ LET inside == command_files[source][2] IN
         /\ \A i \in 1..Len(inside) : ~SameFile(inside[i], file)
         /\ command_files' = [command_files EXCEPT ![source] = Some(Append(inside, file))]
    /\ UNCHANGED <<dirs, noread, files, result, walkVars, debug_assertions, manager, viewer, events>>

\* a file is written into a subdirectory, which is created when it is not there
WriteCommandFileBelow(source, name, file) ==
    /\ result = NoCall
    /\ command_files[source] # None
    /\ FilesOf("User") + FilesOf("Project") < MaxCommandFiles
    /\ LET inside == command_files[source][2]
           at == {i \in 1..Len(inside) : inside[i].is_dir /\ inside[i].name = name}
       IN  IF at = {}
           THEN command_files' = [command_files EXCEPT
                    ![source] = Some(Append(inside, CommandDir(name, <<file>>)))]
           ELSE LET i == CHOOSE i \in at : TRUE IN
                /\ \A j \in 1..Len(inside[i].entries) : ~SameFile(inside[i].entries[j], file)
                /\ command_files' = [command_files EXCEPT
                      ![source] = Some([inside EXCEPT ![i].entries = Append(@, file)])]
    /\ UNCHANGED <<dirs, noread, files, result, walkVars, debug_assertions, manager, viewer, events>>

\* an entry of a commands directory is removed, with what lies in it
RemoveCommandEntry(source, i) ==
    /\ result = NoCall
    /\ command_files[source] # None
    /\ i \in 1..Len(command_files[source][2])
    /\ LET inside == command_files[source][2] IN
         command_files' = [command_files EXCEPT
             ![source] = Some(SubSeq(inside, 1, i - 1) \o SubSeq(inside, i + 1, Len(inside)))]
    /\ UNCHANGED <<dirs, noread, files, result, walkVars, debug_assertions, manager, viewer, events>>

\* CustomCommandManager::load_commands
LoadCommands ==
    /\ result = NoCall
    /\ manager' = [manager EXCEPT !.commands = load_commands.commands]
    /\ result' = [op |-> "load", query |-> IdQuery(<<>>),
                  out |-> IF load_commands.failed THEN Err("Io") ELSE Ok(<<>>)]
    /\ UNCHANGED <<dirs, noread, files, walkVars, debug_assertions, command_files, viewer, events>>

Prompt == <<" ", "p", " ">>

\* files under a built-in name, files under a name of their own, one that is no
\* markdown and one that cannot be read
CommandFiles ==
    {CommandFile("new", "md", Ok(Prompt)),
     CommandFile("test-approval", "md", Ok(Prompt)),
     CommandFile("prompts", "md", Ok(Prompt)),
     CommandFile("review", "md", Ok(Prompt)),
     CommandFile("review", "md", Err("PermissionDenied")),
     CommandFile("quit", "txt", Ok(Prompt))}

Sources == {"User", "Project"}

InitCommands ==
    /\ dirs = {}
    /\ noread = {}
    /\ files = <<>>
    /\ result = NoCall
    /\ WalkAtRest
    /\ debug_assertions \in BOOLEAN
    /\ command_files = [source \in Sources |-> None]
    /\ manager = CustomCommandManager_new
    /\ viewer = new(None, 0)
    /\ events = <<>>

NextCommands ==
    \/ \E source \in Sources : MakeCommandsDir(source)
    \/ \E source \in Sources, file \in CommandFiles : WriteCommandFile(source, file)
    \/ \E source \in Sources, file \in CommandFiles :
            WriteCommandFileBelow(source, "frontend", file)
    \/ \E source \in Sources, i \in 1..MaxCommandFiles : RemoveCommandEntry(source, i)
    \/ LoadCommands
    \/ Return /\ UNCHANGED <<walkVars, tuiVars>>

SpecCommands == InitCommands /\ [][NextCommands]_vars

-----------------------------------------------------------------------------
(* ConversationHistoryViewer *)

PageStep == 10      \* PageUp and PageDown scroll this many times

\* usize::saturating_sub
saturating_sub(a, b) == IF a > b THEN a - b ELSE 0

\* str::parse::<u64>, on the texts the model knows
RECURSIVE DecimalValue(_)
DecimalValue(text) ==
    IF text = <<>> THEN 0
    ELSE 10 * DecimalValue(SubSeq(text, 1, Len(text) - 1))
         + (IF text[Len(text)] = "7" THEN 7 ELSE 0)

parse_u64(text) ==
    IF text # <<>> /\ \A i \in 1..Len(text) : text[i] \in {"0", "7"}
    THEN Ok(DecimalValue(text)) ELSE Err("ParseIntError")

\* format!("Loading message {}...", n)
Placeholder(n) == <<"Loading message", n>>

\* Op::GetHistoryEntryRequest, wrapped in AppEvent::CodexOp
GetHistoryEntryRequest(log_id, offset) ==
    [op |-> "GetHistoryEntryRequest", log_id |-> log_id, offset |-> offset]

Contains(seq, x) == \E i \in 1..Len(seq) : seq[i] = x

\* one turn of the loop of ensure_entry_loaded: a placeholder is pushed, and the
\* entry is requested when the log id is a number and the entry is not awaited
PushPlaceholder(v) ==
    LET pushed == [v EXCEPT !.history_entries =
                       Append(@, Placeholder(Len(v.history_entries) + 1))]
        offset == saturating_sub(Len(pushed.history_entries), 1)
    IN  IF pushed.history_log_id # None
           /\ IsOk(parse_u64(pushed.history_log_id[2]))
           /\ ~Contains(pushed.loading_entries, offset)
        THEN [pushed EXCEPT
                 !.loading_entries = Append(@, offset),
                 !.app_event_tx = Append(@,
                     GetHistoryEntryRequest(parse_u64(pushed.history_log_id[2])[2], offset))]
        ELSE pushed

RECURSIVE ensure_entry_loaded(_, _)
ensure_entry_loaded(v, index) ==
    IF Len(v.history_entries) <= index /\ Len(v.history_entries) < v.history_entry_count
    THEN ensure_entry_loaded(PushPlaceholder(v), index)
    ELSE v

scroll_up(v) ==
    IF v.scroll_offset > 0
    THEN LET moved == [v EXCEPT !.scroll_offset = @ - 1]
         IN  ensure_entry_loaded(moved, moved.scroll_offset)
    ELSE v

scroll_down(v) ==
    LET max_scroll == saturating_sub(Len(v.history_entries), v.visible_height) IN
    IF v.scroll_offset < max_scroll
    THEN LET moved == [v EXCEPT !.scroll_offset = @ + 1]
             bottom_visible == moved.scroll_offset + moved.visible_height
         IN  IF bottom_visible < Len(moved.history_entries)
             THEN ensure_entry_loaded(moved, bottom_visible)
             ELSE moved
    ELSE v

\* for _ in 0..n { self.scroll_up() }, and the same for scroll_down
RECURSIVE PageUp(_, _)
PageUp(n, v) == IF n = 0 THEN v ELSE PageUp(n - 1, scroll_up(v))

RECURSIVE PageDown(_, _)
PageDown(n, v) == IF n = 0 THEN v ELSE PageDown(n - 1, scroll_down(v))

\* handle_key_event, for a key that is pressed
handle_key_event(v, code) ==
    CASE code \in {"Esc", "q"} -> [v EXCEPT !.is_complete = TRUE]
      [] code \in {"Up", "k"} -> scroll_up(v)
      [] code \in {"Down", "j"} -> scroll_down(v)
      [] code = "PageUp" -> PageUp(PageStep, v)
      [] code = "PageDown" -> PageDown(PageStep, v)
      [] code = "Home" -> [v EXCEPT !.scroll_offset = 0]
      [] code = "End" ->
            IF v.history_entries # <<>>
            THEN [v EXCEPT !.scroll_offset =
                     saturating_sub(Len(v.history_entries), v.visible_height)]
            ELSE v
      [] OTHER -> v

on_history_entry_response(v, log_id, offset, entry) ==
    IF Some(log_id) = v.history_log_id
    THEN [v EXCEPT
            !.history_entries =
                IF entry # None /\ offset < Len(@) THEN [@ EXCEPT ![offset + 1] = entry[2]] ELSE @,
            !.loading_entries = SelectSeq(@, LAMBDA x : x # offset)]
    ELSE v

\* the events handled last, the newest at the end
Remember(event) ==
    events' = IF Len(events) < MaxEvents THEN Append(events, event)
              ELSE Append(Tail(events), event)

\* a key is pressed
KeyPress(code) ==
    /\ viewer' = handle_key_event(viewer, code)
    /\ Remember(code)
    /\ UNCHANGED <<storeVars, walkVars, debug_assertions, command_files, manager>>

\* a key event of another kind (a release, a repeat) changes nothing
KeyRelease(code) ==
    /\ Remember("Release")
    /\ UNCHANGED <<storeVars, walkVars, debug_assertions, command_files, manager, viewer>>

\* the backend answers for an entry
HistoryEntryResponse(log_id, offset, entry) ==
    /\ viewer' = on_history_entry_response(viewer, log_id, offset, entry)
    /\ Remember("Response")
    /\ UNCHANGED <<storeVars, walkVars, debug_assertions, command_files, manager>>

KeyCodes == {"Esc", "q", "Up", "k", "Down", "j", "PageUp", "PageDown", "Home", "End", "Enter"}

LogIds == {<<"7">>, <<"0", "7">>, <<"x">>}

EntryText == <<"hello">>

InitViewer ==
    /\ dirs = {}
    /\ noread = {}
    /\ files = <<>>
    /\ result = NoCall
    /\ WalkAtRest
    /\ debug_assertions = FALSE
    /\ command_files = [User |-> None, Project |-> None]
    /\ manager = CustomCommandManager_new
    /\ \E id \in {None} \cup {Some(l) : l \in LogIds}, count \in 0..MaxEntries :
          viewer = new(id, count)
    /\ events = <<>>

NextViewer ==
    \/ \E code \in KeyCodes : KeyPress(code)
    \/ \E code \in KeyCodes : KeyRelease(code)
    \/ \E log_id \in LogIds, offset \in 0..MaxEntries, entry \in {None, Some(EntryText)} :
            HistoryEntryResponse(log_id, offset, entry)

\* the event loop keeps handing events to the viewer
FairViewer == WF_vars(NextViewer)

SpecViewer == InitViewer /\ [][NextViewer]_vars /\ FairViewer

-----------------------------------------------------------------------------
(* What the claims speak of *)

IsSessionFile(f) == f.name.pre = "rollout-" /\ f.name.ext = "jsonl"

\* the session files that hold a journal, and those that do not
ValidSessionFiles ==
    {i \in 1..Len(files) : IsSessionFile(files[i]) /\ IsOk(parse_session_file(PathOf(files[i])))}
CorruptSessionFiles ==
    {i \in 1..Len(files) : IsSessionFile(files[i]) /\ IsErr(parse_session_file(PathOf(files[i])))}

AtDayLevel(i) == Len(files[i].dir) = SessionsDepth

Listed == result.op = "list" /\ IsOk(result.out)
Listing == result.out[2]
ListedPaths == {Listing[k].path : k \in 1..Len(Listing)}

TakesFastPath(q) == exists(q.path) /\ q.path.name.ext = "jsonl"

-----------------------------------------------------------------------------
-----------------------------------------------------------------------------
(* C3: a successful listing is non-increasing in last_modified over every  *)
(* adjacent pair.                                                          *)
C3_NewestFirst ==
    Listed => \A k \in 1..(Len(Listing) - 1) :
                  Listing[k].last_modified >= Listing[k + 1].last_modified

\* three journals, discovered oldest first
C3_Witness ==
    /\ Listed
    /\ Len(Listing) = 3
    /\ files[1].mtime < files[3].mtime

\* a resolve that scanned the listing, and the sessions of a listing whose id
\* begins with, or is, the text
Resolved == result.op = "find" /\ ~TakesFastPath(result.query) /\ IsOk(list_sessions)
PrefixOf(scanned, text) == {k \in 1..Len(scanned) : starts_with(scanned[k].id, text)}
SameId(scanned, text) == {k \in 1..Len(scanned) : scanned[k].id = text}

(* C4: a query that is no existing .jsonl path and is a prefix of the ids  *)
(* of two or more sessions resolves to the path of the matching session    *)
(* with the largest last_modified, the first match in listing order.       *)
C4_MostRecentMatch ==
    Resolved =>
        LET scanned == list_sessions[2]
            matching == PrefixOf(scanned, result.query.text)
        IN  Cardinality(matching) >= 2 =>
                \E k \in matching :
                    /\ result.out = Ok(Some(scanned[k].path))
                    /\ \A j \in matching : scanned[k].last_modified >= scanned[j].last_modified
                    /\ \A j \in matching : k <= j

\* two matches of different age, the older discovered first, and a third session
C4_Witness ==
    /\ Resolved
    /\ LET scanned == list_sessions[2]
           matching == PrefixOf(scanned, result.query.text)
       IN  /\ Len(scanned) = 3
           /\ Cardinality(matching) = 2
           /\ \E i, j \in 1..Len(files) :
                 /\ i < j /\ files[i].mtime < files[j].mtime
                 /\ result.out = Ok(Some(PathOf(files[j])))
                 /\ \E k \in matching : scanned[k].path = PathOf(files[i])

(* C5, as stated: a query equal to the full id of a session S resolves to  *)
(* the path of S, whatever other session matches.                          *)
C5_OwnPath ==
    Resolved =>
        LET scanned == list_sessions[2]
        IN  \A k \in SameId(scanned, result.query.text) :
                result.out = Ok(Some(scanned[k].path))

(* C5, amended: a query equal to the full id of a session S resolves to    *)
(* the path of the most recently modified listed file that carries this    *)
(* id, the first of them in listing order: the path of S when no other     *)
(* listed file carries the id of S.                                        *)
C5_FirstWithId ==
    Resolved =>
        LET scanned == list_sessions[2]
            same == SameId(scanned, result.query.text)
        IN  same # {} =>
                \E k \in same :
                    /\ result.out = Ok(Some(scanned[k].path))
                    /\ \A j \in same :
                          k <= j /\ scanned[k].last_modified >= scanned[j].last_modified

\* two listed files carry the id of the query, and the newer one is returned
C5_Witness ==
    /\ Resolved
    /\ LET scanned == list_sessions[2]
           same == SameId(scanned, result.query.text)
       IN  /\ Cardinality(same) = 2
           /\ \E k, j \in same :
                 /\ scanned[k].last_modified > scanned[j].last_modified
                 /\ result.out = Ok(Some(scanned[k].path))

-----------------------------------------------------------------------------
(* C6: a query that names an existing file with extension jsonl is        *)
(* answered with that path, whatever the store holds, also when a          *)
(* directory of the store cannot be read.                                  *)
C6_PathFastPath ==
    (result.op = "find" /\ TakesFastPath(result.query)) =>
        result.out = Ok(Some(result.query.path))

C6_Witness ==
    /\ result.op = "find"
    /\ TakesFastPath(result.query)
    /\ IsErr(list_sessions)
    /\ result.out = Ok(Some(result.query.path))

-----------------------------------------------------------------------------
\* the journal a parse has read, and what its first line holds
Parsed == result.op = "parse" /\ result.query.path = JournalPath /\ IsOk(files[1].read)
Lines == files[1].read[2]
IsJson(line) == line[1] = "json"
IsObject(line) == IsJson(line) /\ line[2][1] = "obj"
Holds(line, key) == IsObject(line) /\ key \in DOMAIN line[2][2]
HoldsString(line, key) == Holds(line, key) /\ line[2][2][key][1] = "str"

HasValidId(line) ==
    /\ HoldsString(line, "id")
    /\ Len(line[2][2].id[2]) = IdLen
    /\ \A i \in 1..IdLen : line[2][2].id[2][i] \in {"a", "A", "1"}

ValidHeader(lines) ==
    /\ lines # <<>>
    /\ HasValidId(lines[1])
    /\ HoldsString(lines[1], "timestamp")

HoldsBranch(line) ==
    /\ Holds(line, "git")
    /\ Holds(JsonLine(line[2][2].git), "branch")
    /\ line[2][2].git[2].branch[1] = "str"

(* C7, as stated: message_count is the number of body lines that parse as *)
(* JSON objects and hold no record_type key; blank lines, lines that fail  *)
(* to parse and lines that are no JSON objects are not counted.            *)
C7_ObjectsOnly ==
    (Parsed /\ IsOk(result.out)) =>
        result.out[2].message_count =
            Cardinality({i \in 2..Len(Lines) :
                            IsObject(Lines[i]) /\ ~Holds(Lines[i], "record_type")})

(* C7, amended: message_count is the number of body lines that parse as   *)
(* JSON values and hold no record_type key: the JSON objects without the   *)
(* key and the values that are no objects; blank lines and lines that fail *)
(* to parse are not counted.                                               *)
C7_ParsedValues ==
    (Parsed /\ IsOk(result.out)) =>
        result.out[2].message_count =
            Cardinality({i \in 2..Len(Lines) :
                            IsJson(Lines[i]) /\ ~Holds(Lines[i], "record_type")})

\* a number, and a line that does not parse, below the header
C7_Witness ==
    /\ Parsed /\ IsOk(result.out)
    /\ Len(Lines) = 3
    /\ {Lines[2], Lines[3]} = {JsonLine(JNum), BadLine}
    /\ result.out[2].message_count = 1

(* C8: a first line that is a JSON object with a valid id and timestamp   *)
(* parses, whatever the optional fields are: instructions that is absent   *)
(* or no string gives None, and so does a git or git.branch that is absent *)
(* or of the wrong shape.                                                  *)
C8_OptionalFieldsTolerated ==
    (Parsed /\ ValidHeader(Lines)) =>
        /\ IsOk(result.out)
        /\ result.out[2].instructions =
              IF HoldsString(Lines[1], "instructions")
              THEN Some(Lines[1][2][2].instructions[2]) ELSE None
        /\ result.out[2].git_branch =
              IF HoldsBranch(Lines[1]) THEN Some(Lines[1][2][2].git[2].branch[2]) ELSE None

\* instructions and git.branch are numbers
C8_Witness ==
    /\ Parsed /\ ValidHeader(Lines)
    /\ Holds(Lines[1], "instructions") /\ ~HoldsString(Lines[1], "instructions")
    /\ Holds(Lines[1], "git") /\ Lines[1][2][2].git = Object([branch |-> JNum])
    /\ IsOk(result.out)
    /\ result.out[2].instructions = None /\ result.out[2].git_branch = None

(* C9: a journal with no line, with a first line that is no JSON, or with *)
(* a first line without a valid id or timestamp gives InvalidData and no   *)
(* summary, whatever the later lines hold.                                 *)
C9_InvalidHeaderRejected ==
    (Parsed /\ ~ValidHeader(Lines)) => result.out = Err("InvalidData")

\* a valid header on the second line, below a line that is no JSON
C9_Witness ==
    /\ Parsed
    /\ Len(Lines) >= 2
    /\ Lines[1] = BadLine /\ Lines[2] = Header(AnId)
    /\ result.out = Err("InvalidData")

-----------------------------------------------------------------------------
-----------------------------------------------------------------------------
\* the paths another process created, changed or removed while the call ran
TouchedPaths == {t.path : t \in touched}

(* C11: with another process creating, changing and removing session files *)
(* while list_sessions runs, the call succeeds in every interleaving, and   *)
(* its list holds the summary of every valid session file that was not      *)
(* touched during the call; a summary that is left out is that of a touched *)
(* file, and a summary that is listed without its file having been touched  *)
(* is that of a valid file of the store.                                    *)
C11_OnlyTouchedFilesOmitted ==
    result.op = "list" =>
        /\ IsOk(result.out)
        /\ \A i \in ValidSessionFiles : PathOf(files[i]) \notin TouchedPaths =>
              \E k \in 1..Len(Listing) : Listing[k] = parse_session_file(PathOf(files[i]))[2]
        /\ \A k \in 1..Len(Listing) : Listing[k].path \notin TouchedPaths =>
              \E i \in ValidSessionFiles : Listing[k] = parse_session_file(PathOf(files[i]))[2]

\* a valid file was removed between its discovery and its parsing and is left out,
\* and the list holds the other file, which was not touched
C11_Witness ==
    /\ result.op = "list" /\ IsOk(result.out)
    /\ \E t \in touched :
          /\ t.raced
          /\ ~exists(t.path)
          /\ \A k \in 1..Len(Listing) : Listing[k].path # t.path
    /\ \E i \in ValidSessionFiles :
          /\ PathOf(files[i]) \notin TouchedPaths
          /\ \E k \in 1..Len(Listing) : Listing[k].path = PathOf(files[i])

-----------------------------------------------------------------------------
\* the root has no entry: no directory and no file lies in it
EmptyRoot == Root \in dirs /\ SubDirs(Root) = {} /\ FilesIn(Root) = <<>>

(* C12: list_sessions returns Ok with an empty list, and no error, when    *)
(* the sessions root does not exist, and when it exists, can be enumerated  *)
(* and holds no entry.                                                      *)
C12_MissingOrEmptyRoot ==
    (result.op = "list" /\ (Root \notin dirs \/ (EmptyRoot /\ Root \notin noread))) =>
        result.out = Ok(<<>>)

\* the root exists and holds nothing
C12_Witness ==
    /\ result.op = "list"
    /\ EmptyRoot /\ Root \notin noread
    /\ result.out = Ok(<<>>)

-----------------------------------------------------------------------------
(* C13: when the query is no existing .jsonl path, the store lists without *)
(* error, and the id of no listed session matches the query, neither by     *)
(* case-folded prefix nor by equality, find_session returns Ok(None).       *)
C13_NoMatchNotFound ==
    Resolved =>
        LET scanned == list_sessions[2]
            text == result.query.text
        IN  (\A k \in 1..Len(scanned) :
                /\ ~starts_with(to_lowercase(scanned[k].id), to_lowercase(text))
                /\ scanned[k].id # text)
            => result.out = Ok(None)

\* two sessions are listed, and the query is a string that begins neither id
C13_Witness ==
    /\ Resolved
    /\ Len(list_sessions[2]) = 2
    /\ result.query.text # <<>>
    /\ result.query.path # MissingPath
    /\ result.out = Ok(None)

-----------------------------------------------------------------------------
-----------------------------------------------------------------------------
\* the place of a path in the order in which the walk found the sessions
FoundAt(found, path) == CHOOSE i \in 1..Len(found) : found[i].path = path

(* C15: among summaries of equal last_modified, the listing keeps the      *)
(* order in which the walk found their files.                               *)
C15_TiesKeepDiscoveryOrder ==
    Listed =>
        LET found == Discovered[2]
        IN  \A k, j \in 1..Len(Listing) :
                (k < j /\ Listing[k].last_modified = Listing[j].last_modified) =>
                    FoundAt(found, Listing[k].path) < FoundAt(found, Listing[j].path)

\* two journals of one age are found before a newer one
C15_Witness ==
    /\ Listed
    /\ Len(Listing) = 3
    /\ files[1].mtime = files[2].mtime /\ files[2].mtime < files[3].mtime
    /\ Listing[2].path = PathOf(files[1])
    /\ Listing[3].path = PathOf(files[2])

-----------------------------------------------------------------------------
\* one character is the other up to letter case
SameLetter(c, d) == c = d \/ {c, d} = {"a", "A"}

\* the sessions of a listing whose id begins with the text, up to letter case
PrefixUpToCase(scanned, text) ==
    {k \in 1..Len(scanned) :
        /\ Len(text) <= Len(scanned[k].id)
        /\ \A i \in 1..Len(text) : SameLetter(scanned[k].id[i], text[i])}

(* C16: the prefix match ignores letter case: a query that is a leading    *)
(* part of the id of a listed session up to letter case resolves to the     *)
(* path of a session whose id begins that way, never to not-found.          *)
C16_PrefixIgnoresCase ==
    Resolved =>
        LET scanned == list_sessions[2]
            matching == PrefixUpToCase(scanned, result.query.text)
        IN  matching # {} => \E k \in matching : result.out = Ok(Some(scanned[k].path))

\* the query is written in upper case and is no id in full
C16_Witness ==
    /\ Resolved
    /\ result.query.text = <<"A">>
    /\ Len(list_sessions[2]) = 2
    /\ Cardinality(PrefixUpToCase(list_sessions[2], result.query.text)) = 1
    /\ result.out # Ok(None)

-----------------------------------------------------------------------------
(* C17, as stated: no custom command that CustomCommandManager has loaded  *)
(* carries the command string of a built-in command of the build            *)
(* (test-approval included in a debug build), and all_slash_commands        *)
(* returns no name twice.                                                   *)
C17_NoBuiltInShadowed ==
    /\ \A c \in get_commands : \A i \in 1..Len(BuiltInSlashCommand) :
          c.name # command(BuiltInSlashCommand[i])
    /\ LET all == all_slash_commands(get_commands)
       IN  \A i, j \in 1..Len(all) : i # j => all[i][1] # all[j][1]

-----------------------------------------------------------------------------
(* C18: the empty string as query, on a store that lists a session,        *)
(* resolves to the path of the first session of the listing, which no       *)
(* listed session is newer than; it does not resolve to not-found.          *)
C18_EmptyQueryFirstSession ==
    (Resolved /\ result.query.text = <<>>) =>
        LET scanned == list_sessions[2]
        IN  scanned # <<>> =>
                /\ result.out = Ok(Some(scanned[1].path))
                /\ \A j \in 1..Len(scanned) :
                      scanned[1].last_modified >= scanned[j].last_modified

\* the older of two journals is found first, and the newer one is returned
C18_Witness ==
    /\ Resolved /\ result.query = IdQuery(<<>>)
    /\ Len(list_sessions[2]) = 2
    /\ files[1].mtime < files[2].mtime
    /\ result.out = Ok(Some(PathOf(files[2])))

-----------------------------------------------------------------------------
\* a resolver that matches by case-folded prefix only
PrefixOnly(q) ==
    IF exists(q.path) /\ extension(q.path) = Some("jsonl") THEN Ok(Some(q.path))
    ELSE LET sessions == list_sessions IN
         IF IsErr(sessions) THEN sessions
         ELSE LET hits == {i \in 1..Len(sessions[2]) :
                              starts_with(to_lowercase(sessions[2][i].id), to_lowercase(q.text))}
              IN  IF hits = {} THEN Ok(None)
                  ELSE Ok(Some(sessions[2][CHOOSE i \in hits : \A j \in hits : i <= j].path))

(* C19: the test for equality in find_session is subsumed by the prefix    *)
(* test: on every store and every query find_session returns what a         *)
(* resolver that matches by case-folded prefix only returns.                *)
C19_ExactTestSubsumed ==
    result.op = "find" => result.out = PrefixOnly(result.query)

\* the query is the id of a listed session in full, so the test for equality holds
C19_Witness ==
    /\ Resolved
    /\ LET scanned == list_sessions[2]
       IN  /\ Len(scanned) = 2
           /\ scanned[2].id = result.query.text
           /\ scanned[1].id # result.query.text
           /\ result.out = Ok(Some(scanned[2].path))

-----------------------------------------------------------------------------
\* a viewer of a log that has entries and whose id is a number
HasHistory ==
    /\ viewer.history_entry_count >= 1
    /\ viewer.history_log_id # None
    /\ IsOk(parse_u64(viewer.history_log_id[2]))

\* history_entries holds an entry, and a request for an entry was sent
EntryRequested ==
    /\ viewer.history_entries # <<>>
    /\ \E i \in 1..Len(viewer.app_event_tx) :
          viewer.app_event_tx[i].op = "GetHistoryEntryRequest"

(* C20, as stated: a viewer made by new() for a log with at least one      *)
(* entry and an id that parses as u64 gets, by key events and entry         *)
(* responses, to a state in which history_entries is not empty and a        *)
(* GetHistoryEntryRequest was sent. Read over the behaviours in which key   *)
(* events and responses keep arriving.                                      *)
C20_EntryRequested == HasHistory => <>EntryRequested

(* C20, as the code has it: no sequence of key events and entry responses  *)
(* takes the viewer out of the state new() made: history_entries stays      *)
(* empty, the offset stays 0, and nothing is sent.                          *)
C20_NothingLoaded ==
    /\ viewer.history_entries = <<>>
    /\ viewer.scroll_offset = 0
    /\ viewer.loading_entries = <<>>
    /\ viewer.app_event_tx = <<>>

\* Down and End were pressed on a viewer of a log with entries
C20_Witness ==
    /\ HasHistory
    /\ events = <<"Down", "End">>
    /\ C20_NothingLoaded

====
